---- MODULE Spec2Model ----
(***************************************************************************)
(* Model of examples/custom-evm/src/main.rs: the EVM factory              *)
(* (MyEvmFactory), the precompile dispatcher (CustomPrecompiles wrapping   *)
(* revm's EthPrecompiles) and the process-wide cache of the custom PRAGUE  *)
(* precompile set (prague_custom, a OnceLock).                             *)
(*                                                                         *)
(* The revm items main.rs calls (SpecId, Precompiles, EthPrecompiles) are  *)
(* modelled at the place main.rs uses them.                                *)
(***************************************************************************)
EXTENDS Integers, Sequences, FiniteSets, TLC

\* ------------------------------------------------------------------ bounds
NDisp == 2          \* dispatchers (one per VM built by the factory)
MaxInputLen == 1    \* longest call input, in bytes

\* ------------------------------------------------------- hardfork identifiers
\* SpecId, in declaration order (the order is the total order on specs).
SpecOrder ==
    << "FRONTIER", "FRONTIER_THAWING", "HOMESTEAD", "DAO_FORK", "TANGERINE",
       "SPURIOUS_DRAGON", "BYZANTIUM", "CONSTANTINOPLE", "PETERSBURG",
       "ISTANBUL", "MUIR_GLACIER", "BERLIN", "LONDON", "ARROW_GLACIER",
       "GRAY_GLACIER", "MERGE", "SHANGHAI", "CANCUN", "PRAGUE", "OSAKA" >>

SpecId == { SpecOrder[i] : i \in 1..Len(SpecOrder) }

SpecIndex(s) == CHOOSE i \in 1..Len(SpecOrder) : SpecOrder[i] = s

PRAGUE == "PRAGUE"

\* SpecId::default()
SpecId_default == PRAGUE

PrePrague == { s \in SpecId : SpecIndex(s) < SpecIndex(PRAGUE) }

PostPrague == { s \in SpecId : SpecIndex(s) > SpecIndex(PRAGUE) }

\* PrecompileSpecId::from_spec_id
from_spec_id(s) ==
    LET i == SpecIndex(s) IN
    IF i <= SpecIndex("SPURIOUS_DRAGON") THEN "HOMESTEAD"
    ELSE IF i <= SpecIndex("PETERSBURG") THEN "BYZANTIUM"
    ELSE IF i <= SpecIndex("MUIR_GLACIER") THEN "ISTANBUL"
    ELSE IF i <= SpecIndex("SHANGHAI") THEN "BERLIN"
    ELSE IF s = "CANCUN" THEN "CANCUN"
    ELSE "PRAGUE"

PrecompileSpecId == { from_spec_id(s) : s \in SpecId }

\* ------------------------------------------------------------- addresses
\* address!("0x0000000000000000000000000000000000000999")
CUSTOM_ADDRESS == 2457

\* Addresses calls are made to: 0x00..0x12 cover every Ethereum precompile
\* slot up to PRAGUE (0x01..0x11) and two slots next to them; 0x998 and
\* 0x99a are the neighbours of the custom slot.
Address == (0..18) \cup {2456, CUSTOM_ADDRESS, 2458}

\* ------------------------------------------------------ precompile sets
\* (address :> routine) pairs; a precompile set is a function from its
\* addresses to routine names.
Extend(set, entries) ==
    [a \in (DOMAIN set) \cup (DOMAIN entries) |->
        IF a \in DOMAIN entries THEN entries[a] ELSE set[a]]

Precompiles_homestead ==
    (1 :> "ecrecover") @@ (2 :> "sha256") @@ (3 :> "ripemd160") @@ (4 :> "identity")

Precompiles_byzantium ==
    Extend(Precompiles_homestead,
           (5 :> "modexp_byzantium") @@ (6 :> "bn_add_byzantium") @@
           (7 :> "bn_mul_byzantium") @@ (8 :> "bn_pair_byzantium"))

Precompiles_istanbul ==
    Extend(Precompiles_byzantium,
           (6 :> "bn_add_istanbul") @@ (7 :> "bn_mul_istanbul") @@
           (8 :> "bn_pair_istanbul") @@ (9 :> "blake2f"))

Precompiles_berlin ==
    Extend(Precompiles_istanbul, (5 :> "modexp_berlin"))

Precompiles_cancun ==
    Extend(Precompiles_berlin, (10 :> "kzg_point_evaluation"))

\* Precompiles::prague()
Precompiles_prague ==
    Extend(Precompiles_cancun,
           (11 :> "bls_g1_add") @@ (12 :> "bls_g1_msm") @@ (13 :> "bls_g2_add") @@
           (14 :> "bls_g2_msm") @@ (15 :> "bls_pairing") @@
           (16 :> "bls_map_fp_to_g1") @@ (17 :> "bls_map_fp2_to_g2"))

\* Precompiles::new(PrecompileSpecId)
Precompiles_new(id) ==
    CASE id = "HOMESTEAD" -> Precompiles_homestead
      [] id = "BYZANTIUM" -> Precompiles_byzantium
      [] id = "ISTANBUL"  -> Precompiles_istanbul
      [] id = "BERLIN"    -> Precompiles_berlin
      [] id = "CANCUN"    -> Precompiles_cancun
      [] id = "PRAGUE"    -> Precompiles_prague

\* --------------------------------------------------------- native routines
\* Bytes::new()
Bytes_new == [of |-> "raw", data |-> <<>>]

\* Call inputs: byte strings of zero bytes, up to MaxInputLen long.
Input == UNION { [1..n -> {0}] : n \in 0..MaxInputLen }

GasLimit == {0, 3000}

Words(len) == (len + 31) \div 32

\* Gas a base routine charges for an input of `len` bytes.
RoutineGas(name, len) ==
    CASE name = "ecrecover"             -> 3000
      [] name = "sha256"                -> 60 + 12 * Words(len)
      [] name = "ripemd160"             -> 600 + 120 * Words(len)
      [] name = "identity"              -> 15 + 3 * Words(len)
      [] name = "modexp_byzantium"      -> 0
      [] name = "modexp_berlin"         -> 200
      [] name = "bn_add_byzantium"      -> 500
      [] name = "bn_add_istanbul"       -> 150
      [] name = "bn_mul_byzantium"      -> 40000
      [] name = "bn_mul_istanbul"       -> 6000
      [] name = "bn_pair_byzantium"     -> 100000
      [] name = "bn_pair_istanbul"      -> 45000
      [] name = "blake2f"               -> 0
      [] name = "kzg_point_evaluation"  -> 50000
      [] name = "bls_g1_add"            -> 375
      [] name = "bls_g1_msm"            -> 12000
      [] name = "bls_g2_add"            -> 600
      [] name = "bls_g2_msm"            -> 22500
      [] name = "bls_pairing"           -> 37700
      [] name = "bls_map_fp_to_g1"      -> 5500
      [] name = "bls_map_fp2_to_g2"     -> 23800

\* Routines that accept only inputs of a fixed, non-zero shape; none of the
\* inputs of at most MaxInputLen zero bytes has it (bn_pair accepts the
\* empty input).
RejectsLength(name, len) ==
    \/ name \in {"blake2f", "kzg_point_evaluation", "bls_g1_add", "bls_g1_msm",
                 "bls_g2_add", "bls_g2_msm", "bls_pairing", "bls_map_fp_to_g1",
                 "bls_map_fp2_to_g2"}
    \/ name \in {"bn_pair_byzantium", "bn_pair_istanbul"} /\ len # 0

\* Routines that validate the input length before they charge gas.
LengthFirst(name) ==
    name \in {"blake2f", "bls_g1_msm", "bls_g2_msm", "bls_pairing"}

PrecompileOutput_new(gas_used, bytes) ==
    [tag |-> "Ok", gas_used |-> gas_used, bytes |-> bytes, oog |-> FALSE]

PrecompileError(oog) ==
    [tag |-> "Err", gas_used |-> 0, bytes |-> Bytes_new, oog |-> oog]

\* The closure registered at CUSTOM_ADDRESS: |_, _| Ok(PrecompileOutput::new(0, Bytes::new()))
custom_routine(input, gas_limit) == PrecompileOutput_new(0, Bytes_new)

\* A base routine of revm applied to (input, gas_limit).
base_routine(name, input, gas_limit) ==
    LET len  == Len(input)
        cost == RoutineGas(name, len)
    IN  IF LengthFirst(name) /\ RejectsLength(name, len) THEN PrecompileError(FALSE)
        ELSE IF cost > gas_limit THEN PrecompileError(TRUE)
        ELSE IF RejectsLength(name, len) THEN PrecompileError(FALSE)
        ELSE IF name \in {"ecrecover", "modexp_byzantium", "modexp_berlin"}
             THEN PrecompileOutput_new(cost, Bytes_new)
        ELSE PrecompileOutput_new(cost, [of |-> name, data |-> input])

\* (*precompile)(&inputs.input, gas_limit)
call_routine(name, input, gas_limit) ==
    IF name = "custom" THEN custom_routine(input, gas_limit)
    ELSE base_routine(name, input, gas_limit)

\* ------------------------------------------------------------------ state
Dispatchers == 1..NDisp

VARIABLES
    disp,      \* disp[d]: the CustomPrecompiles of VM d, its field `precompiles`
               \* (an EthPrecompiles {precompiles: &'static Precompiles, spec})
    instance,  \* the static OnceLock<Precompiles> of prague_custom
    builds,    \* how many times the closure of get_or_init has run
    pc,        \* pc[d]: where the thread that owns VM d is inside prague_custom
    caller,    \* caller[d]: what called prague_custom ("set_spec" or "direct")
    local,     \* local[d]: the closure's `precompiles` while the thread builds
    given,     \* given[d]: the spec last passed to set_spec since d was created
    returned,  \* what the calls of prague_custom made so far have returned
    last       \* the last completed call and what it returned

vars == <<disp, instance, builds, pc, caller, local, given, returned, last>>

\* References to the &'static Precompiles a dispatcher can hold: the set revm
\* keeps per PrecompileSpecId, or the set held by the OnceLock (gen is the build
\* that produced it).
BaseRef(id) == [kind |-> "base", id |-> id, gen |-> 0]

CustomRef(gen) == [kind |-> "custom", id |-> "PRAGUE", gen |-> gen]

NoSet == << >>

\* The set a reference points at, in the current state.
Deref(ref) ==
    IF ref.kind = "custom" THEN instance.value ELSE Precompiles_new(ref.id)

\* EthPrecompiles::default()
EthPrecompiles_default ==
    [precompiles |-> BaseRef(from_spec_id(SpecId_default)), spec |-> SpecId_default]

\* Faulty variant of new: the dispatcher starts from the oldest spec.
new_frontier ==
    [precompiles |-> [precompiles |-> BaseRef(from_spec_id("FRONTIER")), spec |-> "FRONTIER"]]

\* CustomPrecompiles::new
new == [precompiles |-> EthPrecompiles_default]

\* Faulty variants of EthPrecompiles::set_spec. (1) The guard is inverted: a
\* new spec is only recorded, and the set is installed when the spec supplied
\* is the one already recorded.
EthPrecompiles_set_spec_inverted_guard(self, spec) ==
    IF spec # self.spec THEN << [self EXCEPT !.spec = spec], FALSE >>
    ELSE << [precompiles |-> BaseRef(from_spec_id(spec)), spec |-> spec], TRUE >>

\* (2) The guard compares the
\* precompile spec ids, so a spec with the same base set is not recorded.
EthPrecompiles_set_spec_same_id(self, spec) ==
    IF from_spec_id(spec) = from_spec_id(self.spec) THEN <<self, FALSE>>
    ELSE << [precompiles |-> BaseRef(from_spec_id(spec)), spec |-> spec], TRUE >>

\* EthPrecompiles::set_spec: <<the dispatcher after the call, the return value>>
EthPrecompiles_set_spec(self, spec) ==
    IF spec = self.spec THEN <<self, FALSE>>
    ELSE << [precompiles |-> BaseRef(from_spec_id(spec)), spec |-> spec], TRUE >>

\* Faulty variant of the clone: the closure starts from the set of the
\* previous hardfork.
clone_cancun == Precompiles_cancun

\* The closure of get_or_init: Precompiles::prague().clone(), then extend.
clone_prague == Precompiles_prague

extend_custom(precompiles) == Extend(precompiles, (CUSTOM_ADDRESS :> "custom"))

\* Faulty variant of get_or_init: no memo, every call builds and stores anew.
get_or_init_rebuilds(cell, n) ==
    << [state |-> "complete", gen |-> n + 1, value |-> extend_custom(clone_prague)],
       n + 1, CustomRef(n + 1) >>

\* Faulty variant of get_or_init: the caller that fills the cell is handed the
\* set the closure started from, the base PRAGUE set, not the cell's value.
get_or_init_builder_gets_base(cell, n) ==
    IF cell.state = "complete" THEN << cell, n, CustomRef(cell.gen) >>
    ELSE << [state |-> "complete", gen |-> n + 1, value |-> extend_custom(clone_prague)],
            n + 1, BaseRef(from_spec_id(PRAGUE)) >>

\* OnceLock::get_or_init run to completion by one caller:
\* <<the cell after the call, builds after the call, the reference returned>>
get_or_init(cell, n) ==
    IF cell.state = "complete" THEN << cell, n, CustomRef(cell.gen) >>
    ELSE << [state |-> "complete", gen |-> n + 1, value |-> extend_custom(clone_prague)],
            n + 1, CustomRef(n + 1) >>

\* Faulty variants of set_spec, used to show that the properties below depend
\* on it. (1) The PRAGUE branch is missing: every spec is delegated.
set_spec_always_delegates(self, spec, ref) ==
    << [precompiles |-> EthPrecompiles_set_spec(self.precompiles, spec)[1]], TRUE >>

\* (2) The PRAGUE branch swaps the set but leaves the recorded spec as it was.
set_spec_stale_spec(self, spec, ref) ==
    IF spec = PRAGUE
    THEN << [precompiles |-> [precompiles |-> ref, spec |-> self.precompiles.spec]], TRUE >>
    ELSE << [precompiles |-> EthPrecompiles_set_spec(self.precompiles, spec)[1]], TRUE >>

\* (3) The else branch records the spec but keeps the active set.
set_spec_keeps_set(self, spec, ref) ==
    IF spec = PRAGUE
    THEN << [precompiles |-> [precompiles |-> ref, spec |-> spec]], TRUE >>
    ELSE << [precompiles |-> [self.precompiles EXCEPT !.spec = spec]], TRUE >>

\* (4) The else branch returns what the base dispatcher's set_spec returned.
set_spec_propagates_return(self, spec, ref) ==
    IF spec = PRAGUE
    THEN << [precompiles |-> [precompiles |-> ref, spec |-> spec]], TRUE >>
    ELSE << [precompiles |-> EthPrecompiles_set_spec(self.precompiles, spec)[1]],
            EthPrecompiles_set_spec(self.precompiles, spec)[2] >>

\* (5) A spec after PRAGUE inherits the custom set when it is the active one.
set_spec_inherited_after_prague(self, spec, ref) ==
    IF spec = PRAGUE
    THEN << [precompiles |-> [precompiles |-> ref, spec |-> spec]], TRUE >>
    ELSE IF SpecIndex(spec) > SpecIndex(PRAGUE)
            /\ self.precompiles.precompiles.kind = "custom"
    THEN << [precompiles |-> [self.precompiles EXCEPT !.spec = spec]], TRUE >>
    ELSE << [precompiles |-> EthPrecompiles_set_spec(self.precompiles, spec)[1]], TRUE >>

\* CustomPrecompiles::set_spec, given the reference prague_custom() returned
\* (used only when spec is PRAGUE): <<the dispatcher after, the return value>>
set_spec(self, spec, ref) ==
    IF spec = PRAGUE
    THEN << [precompiles |-> [precompiles |-> ref, spec |-> spec]], TRUE >>
    ELSE << [precompiles |-> EthPrecompiles_set_spec(self.precompiles, spec)[1]], TRUE >>

\* InterpreterResult and the values run returns.
Absent == [tag |-> "None", result |-> "-", gas_remaining |-> 0, gas_spent |-> 0,
           output |-> Bytes_new]

Some(result, gas_limit, gas_spent, output) ==
    [tag |-> "Some", result |-> result, gas_remaining |-> gas_limit - gas_spent,
     gas_spent |-> gas_spent, output |-> output]

Panic == [tag |-> "Panic", result |-> "-", gas_remaining |-> 0, gas_spent |-> 0,
          output |-> Bytes_new]

\* EthPrecompiles::run on the set `set`
EthPrecompiles_run(set, address, input, is_static, gas_limit) ==
    IF address \notin DOMAIN set THEN Absent
    ELSE LET out == call_routine(set[address], input, gas_limit) IN
         IF out.tag = "Ok"
         THEN IF out.gas_used > gas_limit THEN Panic
              ELSE Some("Return", gas_limit, out.gas_used, out.bytes)
         ELSE Some(IF out.oog THEN "PrecompileOOG" ELSE "PrecompileError",
                   gas_limit, 0, Bytes_new)

\* Faulty variant of run: an address that is not a precompile is treated as a
\* programming error (fail fast) instead of a negative lookup.
run_fail_fast(self, address, input, is_static, gas_limit) ==
    IF address \notin DOMAIN Deref(self.precompiles.precompiles) THEN Panic
    ELSE EthPrecompiles_run(Deref(self.precompiles.precompiles), address, input,
                            is_static, gas_limit)

\* Faulty variant of run: a failure of the routine is swallowed and reported
\* as a negative lookup.
run_error_is_absent(self, address, input, is_static, gas_limit) ==
    LET r == EthPrecompiles_run(Deref(self.precompiles.precompiles), address,
                                input, is_static, gas_limit)
    IN  IF r.tag = "Some" /\ r.result # "Return" THEN Absent ELSE r

\* CustomPrecompiles::run
run(self, address, input, is_static, gas_limit) ==
    EthPrecompiles_run(Deref(self.precompiles.precompiles), address, input,
                       is_static, gas_limit)

\* CustomPrecompiles::contains
contains(self, address) == address \in DOMAIN Deref(self.precompiles.precompiles)

\* CustomPrecompiles::warm_addresses: the addresses in iteration order
\* (a sequence, so that a repeated address would show).
RECURSIVE SeqOf(_)
SeqOf(S) == IF S = {} THEN << >>
            ELSE LET m == CHOOSE x \in S : \A y \in S : x <= y
                 IN  <<m>> \o SeqOf(S \ {m})

\* Faulty variant of warm_addresses: the addresses of the base set of the
\* recorded spec, whatever set is active.
warm_addresses_of_spec(self) ==
    SeqOf(DOMAIN Precompiles_new(from_spec_id(self.precompiles.spec)))

warm_addresses(self) == SeqOf(DOMAIN Deref(self.precompiles.precompiles))

\* ------------------------------------------------------------ the factory
\* What a VM is built from: the database, the EvmEnv (cfg_env with its spec,
\* block_env) and, for create_evm_with_inspector, the inspector.
Database == {"db_a", "db_b"}

BlockEnv == {"block_a", "block_b"}

EvmEnv(spec, block_env) == [cfg_env |-> [spec |-> spec], block_env |-> block_env]

NoOpInspector == "NoOpInspector"

\* The inspectors create_evm_with_inspector is given.
Inspector == {"tracer"}

\* EthEvm::new(evm, inspect)
EthEvm_new(evm, inspect) == [inner |-> evm, inspect |-> inspect]

\* MyEvmFactory::create_evm as a function of its arguments: the VM it returns.
build_evm(db, input) ==
    EthEvm_new([db |-> db, cfg |-> input.cfg_env, block |-> input.block_env,
                inspector |-> NoOpInspector, precompiles |-> new], FALSE)

\* Evm::with_inspector
with_inspector(evm, inspector) == [evm EXCEPT !.inspector = inspector]

\* Faulty variant of create_evm_with_inspector: the VM is built anew and the
\* cfg_env of the input is not passed on, the VM keeps CfgEnv::default().
create_evm_with_inspector_default_cfg(db, input, inspector) ==
    EthEvm_new(with_inspector(
        [build_evm(db, input).inner EXCEPT !.cfg = [spec |-> SpecId_default]],
        inspector), TRUE)

\* MyEvmFactory::create_evm_with_inspector: the VM it returns.
create_evm_with_inspector(db, input, inspector) ==
    EthEvm_new(with_inspector(build_evm(db, input).inner, inspector), TRUE)

\* ------------------------------------------------------------ initial state
\* No call of prague_custom has been made; every VM has just been built by
\* create_evm, so its dispatcher is CustomPrecompiles::new().
Init ==
    /\ disp = [d \in Dispatchers |-> new]
    /\ instance = [state |-> "incomplete", gen |-> 0, value |-> NoSet]
    /\ builds = 0
    /\ pc = [d \in Dispatchers |-> "idle"]
    /\ caller = [d \in Dispatchers |-> "-"]
    /\ local = [d \in Dispatchers |-> NoSet]
    /\ given = [d \in Dispatchers |-> "none"]
    /\ returned = {}
    /\ last = [op |-> "init", d |-> 0, arg |-> "-", before |-> "-", ret |-> "-"]

\* What `last` keeps of the dispatcher a set_spec(spec) call started from:
\* whether the custom entry was active, and whether spec was already its spec.
Before(self, spec) ==
    [custom |-> contains(self, CUSTOM_ADDRESS), same |-> (self.precompiles.spec = spec)]

\* What a caller of prague_custom gets: the reference, and the set it reads
\* through it on return.
Returned(ref, cell) == [ref |-> ref, seen |-> cell.value]

\* ------------------------------------------------- calls, run to completion
\* MyEvmFactory::create_evm(db, input) with input.cfg_env.spec = spec: VM d
\* is replaced by a newly built one. The database and the block env, which no
\* call of the dispatcher reads, are fixed here; CreatePair varies them.
create_evm(d, spec) ==
    /\ pc[d] = "idle"
    /\ LET vm == build_evm("db_a", EvmEnv(spec, "block_a")) IN
        /\ disp' = [disp EXCEPT ![d] = vm.inner.precompiles]
        /\ last' = [op |-> "create_evm", d |-> d, arg |-> spec, before |-> "-",
                    ret |-> vm]
    /\ given' = [given EXCEPT ![d] = "none"]
    /\ UNCHANGED <<instance, builds, pc, caller, local, returned>>

\* prague_custom() called on its own, by the thread of VM d.
prague_custom(d) ==
    /\ pc[d] = "idle"
    /\ LET r == get_or_init(instance, builds) IN
        /\ instance' = r[1]
        /\ builds' = r[2]
        /\ returned' = returned \cup {Returned(r[3], r[1])}
        /\ last' = [op |-> "prague_custom", d |-> d, arg |-> "-", before |-> "-",
                    ret |-> Returned(r[3], r[1])]
    /\ UNCHANGED <<disp, pc, caller, local, given>>

\* CustomPrecompiles::set_spec(spec) on the dispatcher of VM d.
SetSpec(d, spec) ==
    /\ pc[d] = "idle"
    /\ LET r == IF spec = PRAGUE THEN get_or_init(instance, builds)
                ELSE <<instance, builds, BaseRef("-")>>
           s == set_spec(disp[d], spec, r[3])
       IN
        /\ instance' = r[1]
        /\ builds' = r[2]
        /\ returned' = IF spec = PRAGUE THEN returned \cup {Returned(r[3], r[1])}
                       ELSE returned
        /\ disp' = [disp EXCEPT ![d] = s[1]]
        /\ last' = [op |-> "set_spec", d |-> d, arg |-> spec,
                    before |-> Before(disp[d], spec), ret |-> s[2]]
    /\ given' = [given EXCEPT ![d] = spec]
    /\ UNCHANGED <<pc, caller, local>>

\* Faulty variant of Run: run uses its &mut self to refresh the active set for
\* the recorded spec before the lookup.
Run_refreshes(d, address, input, is_static, gas_limit) ==
    /\ pc[d] = "idle"
    /\ LET spec == disp[d].precompiles.spec
           r == IF spec = PRAGUE THEN get_or_init(instance, builds)
                ELSE <<instance, builds, BaseRef("-")>>
           s == set_spec(disp[d], spec, r[3])
       IN
        /\ instance' = r[1]
        /\ builds' = r[2]
        /\ disp' = [disp EXCEPT ![d] = s[1]]
        /\ last' = [op |-> "run", d |-> d,
                    arg |-> [address |-> address, input |-> input,
                             gas_limit |-> gas_limit],
                    before |-> "-",
                    ret |-> EthPrecompiles_run(
                              IF s[1].precompiles.precompiles.kind = "custom"
                              THEN r[1].value
                              ELSE Deref(s[1].precompiles.precompiles),
                              address, input, is_static, gas_limit)]
    /\ UNCHANGED <<pc, caller, local, given, returned>>

\* CustomPrecompiles::run on the dispatcher of VM d.
Run(d, address, input, is_static, gas_limit) ==
    /\ pc[d] = "idle"
    /\ last' = [op |-> "run", d |-> d,
                arg |-> [address |-> address, input |-> input,
                         gas_limit |-> gas_limit],
                before |-> "-",
                ret |-> run(disp[d], address, input, is_static, gas_limit)]
    /\ UNCHANGED <<disp, instance, builds, pc, caller, local, given, returned>>

\* CustomPrecompiles::contains on the dispatcher of VM d.
Contains(d, address) ==
    /\ pc[d] = "idle"
    /\ last' = [op |-> "contains", d |-> d, arg |-> address, before |-> "-",
                ret |-> contains(disp[d], address)]
    /\ UNCHANGED <<disp, instance, builds, pc, caller, local, given, returned>>

\* CustomPrecompiles::warm_addresses on the dispatcher of VM d.
WarmAddresses(d) ==
    /\ pc[d] = "idle"
    /\ last' = [op |-> "warm_addresses", d |-> d, arg |-> "-", before |-> "-",
                ret |-> warm_addresses(disp[d])]
    /\ UNCHANGED <<disp, instance, builds, pc, caller, local, given, returned>>

\* The VM the single-VM specification drives.
Main == { d \in Dispatchers : \A e \in Dispatchers : d <= e }

\* One VM, every call of its dispatcher with every spec, address, input and
\* gas limit, each call run to completion and its result recorded in `last`.
Next ==
    \/ \E d \in Main, spec \in SpecId : create_evm(d, spec)
    \/ \E d \in Main : prague_custom(d)
    \/ \E d \in Main, spec \in SpecId : SetSpec(d, spec)
    \/ \E d \in Main, address \in Address, input \in Input,
          is_static \in BOOLEAN, gas_limit \in GasLimit :
            Run(d, address, input, is_static, gas_limit)
    \/ \E d \in Main, address \in Address : Contains(d, address)
    \/ \E d \in Main : WarmAddresses(d)

Spec == Init /\ [][Next]_vars

\* ------------------------------------------- calls, interleaved step by step
\* Every VM has its own thread; the threads share the OnceLock. A call of
\* prague_custom is split at the points where OnceLock::get_or_init reads or
\* writes the cell, and the closure at its statements.

\* The specs the threads pass to set_spec: PRAGUE, two before it, one after.
SharedSpecs == {"SHANGHAI", "CANCUN", PRAGUE, "OSAKA"}

\* #[derive(Clone)] on CustomPrecompiles: the thread of VM e replaces its
\* dispatcher by a clone of the dispatcher of VM d, which copies the field
\* `precompiles` (the reference to the set and the spec). VM d's dispatcher
\* is not inside set_spec, which borrows it mutably.
Clone(d, e) ==
    /\ d # e
    /\ pc[e] = "idle"
    /\ caller[d] # "set_spec"
    /\ disp' = [disp EXCEPT ![e] = [precompiles |-> disp[d].precompiles]]
    /\ given' = [given EXCEPT ![e] = given[d]]
    /\ last' = [op |-> "clone", d |-> e, arg |-> d, before |-> "-", ret |-> disp[d]]
    /\ UNCHANGED <<instance, builds, pc, caller, local, returned>>

\* Faulty variant of the else branch: a dispatcher that holds the set of the
\* OnceLock does not swap its reference, the set it points at is rewritten in
\* place to the base set of the spec.
SetSpecBase_edits_shared_set(d, spec) ==
    /\ pc[d] = "idle"
    /\ spec # PRAGUE
    /\ IF disp[d].precompiles.precompiles.kind = "custom"
       THEN /\ instance' = [instance EXCEPT !.value = Precompiles_new(from_spec_id(spec))]
            /\ disp' = [disp EXCEPT ![d].precompiles.spec = spec]
       ELSE /\ instance' = instance
            /\ disp' = [disp EXCEPT ![d] = set_spec(disp[d], spec, BaseRef("-"))[1]]
    /\ given' = [given EXCEPT ![d] = spec]
    /\ last' = [op |-> "set_spec", d |-> d, arg |-> spec,
                before |-> Before(disp[d], spec),
                ret |-> set_spec(disp[d], spec, BaseRef("-"))[2]]
    /\ UNCHANGED <<builds, pc, caller, local, returned>>

\* set_spec(spec), spec other than PRAGUE: the else branch, no shared state.
SetSpecBase(d, spec) ==
    /\ pc[d] = "idle"
    /\ spec # PRAGUE
    /\ disp' = [disp EXCEPT ![d] = set_spec(disp[d], spec, BaseRef("-"))[1]]
    /\ given' = [given EXCEPT ![d] = spec]
    /\ last' = [op |-> "set_spec", d |-> d, arg |-> spec,
                before |-> Before(disp[d], spec),
                ret |-> set_spec(disp[d], spec, BaseRef("-"))[2]]
    /\ UNCHANGED <<instance, builds, pc, caller, local, returned>>

\* set_spec(PRAGUE) reaches the call of prague_custom().
SetSpecPragueCall(d) ==
    /\ pc[d] = "idle"
    /\ pc' = [pc EXCEPT ![d] = "get_or_init"]
    /\ caller' = [caller EXCEPT ![d] = "set_spec"]
    /\ UNCHANGED <<disp, instance, builds, local, given, returned, last>>

\* prague_custom() is called on its own.
PragueCustomCall(d) ==
    /\ pc[d] = "idle"
    /\ pc' = [pc EXCEPT ![d] = "get_or_init"]
    /\ caller' = [caller EXCEPT ![d] = "direct"]
    /\ UNCHANGED <<disp, instance, builds, local, given, returned, last>>

\* Faulty variants of the entry of get_or_init. (1) The initialised cell is
\* not recognised: a caller that finds it initialised initialises it again.
OnceEnter_reinitialises(d) ==
    /\ pc[d] = "get_or_init"
    /\ instance.state # "running"
    /\ pc' = [pc EXCEPT ![d] = "clone"]
    /\ instance' = [instance EXCEPT !.state = "running"]
    /\ UNCHANGED <<disp, builds, caller, local, given, returned, last>>

\* (2) No mutual exclusion: a caller that finds the cell being initialised
\* does not wait and runs the closure too.
OnceEnter_does_not_wait(d) ==
    /\ pc[d] = "get_or_init"
    /\ IF instance.state = "complete"
       THEN /\ pc' = [pc EXCEPT ![d] = "return"]
            /\ UNCHANGED instance
       ELSE /\ pc' = [pc EXCEPT ![d] = "clone"]
            /\ instance' = [instance EXCEPT !.state = "running"]
    /\ UNCHANGED <<disp, builds, caller, local, given, returned, last>>

\* get_or_init looks at the cell: initialised, it returns; untouched, this
\* thread becomes the initialiser; being initialised, the thread waits.
OnceEnter(d) ==
    /\ pc[d] = "get_or_init"
    /\ instance.state # "running"
    /\ IF instance.state = "complete"
       THEN /\ pc' = [pc EXCEPT ![d] = "return"]
            /\ UNCHANGED instance
       ELSE /\ pc' = [pc EXCEPT ![d] = "clone"]
            /\ instance' = [instance EXCEPT !.state = "running"]
    /\ UNCHANGED <<disp, builds, caller, local, given, returned, last>>

\* let mut precompiles = Precompiles::prague().clone();
ClosureClone(d) ==
    /\ pc[d] = "clone"
    /\ local' = [local EXCEPT ![d] = clone_prague]
    /\ builds' = builds + 1
    /\ pc' = [pc EXCEPT ![d] = "extend"]
    /\ UNCHANGED <<disp, instance, caller, given, returned, last>>

\* precompiles.extend([(address, closure).into()]);
ClosureExtend(d) ==
    /\ pc[d] = "extend"
    /\ local' = [local EXCEPT ![d] = extend_custom(local[d])]
    /\ pc' = [pc EXCEPT ![d] = "store"]
    /\ UNCHANGED <<disp, instance, builds, caller, given, returned, last>>

\* The closure returns `precompiles`; get_or_init stores it and marks the
\* cell initialised.
OnceStore(d) ==
    /\ pc[d] = "store"
    /\ instance' = [state |-> "complete", gen |-> builds, value |-> local[d]]
    /\ local' = [local EXCEPT ![d] = NoSet]
    /\ pc' = [pc EXCEPT ![d] = "return"]
    /\ UNCHANGED <<disp, builds, caller, given, returned, last>>

\* get_or_init returns the reference into the cell; prague_custom returns it
\* to its caller, and set_spec assigns self.precompiles and returns true.
OnceReturn(d) ==
    /\ pc[d] = "return"
    /\ returned' = returned \cup {Returned(CustomRef(instance.gen), instance)}
    /\ IF caller[d] = "set_spec"
       THEN /\ disp' = [disp EXCEPT
                          ![d] = set_spec(disp[d], PRAGUE, CustomRef(instance.gen))[1]]
            /\ given' = [given EXCEPT ![d] = PRAGUE]
            /\ last' = [op |-> "set_spec", d |-> d, arg |-> PRAGUE,
                        before |-> Before(disp[d], PRAGUE),
                        ret |-> set_spec(disp[d], PRAGUE, CustomRef(instance.gen))[2]]
       ELSE /\ last' = [op |-> "prague_custom", d |-> d, arg |-> "-", before |-> "-",
                        ret |-> Returned(CustomRef(instance.gen), instance)]
            /\ UNCHANGED <<disp, given>>
    /\ pc' = [pc EXCEPT ![d] = "idle"]
    /\ caller' = [caller EXCEPT ![d] = "-"]
    /\ UNCHANGED <<instance, builds, local>>

NextShared ==
    \/ \E d \in Dispatchers, spec \in SharedSpecs : create_evm(d, spec)
    \/ \E d \in Dispatchers, e \in Dispatchers : Clone(d, e)
    \/ \E d \in Dispatchers, spec \in SharedSpecs : SetSpecBase(d, spec)
    \/ \E d \in Dispatchers : SetSpecPragueCall(d)
    \/ \E d \in Dispatchers : PragueCustomCall(d)
    \/ \E d \in Dispatchers : OnceEnter(d)
    \/ \E d \in Dispatchers : ClosureClone(d)
    \/ \E d \in Dispatchers : ClosureExtend(d)
    \/ \E d \in Dispatchers : OnceStore(d)
    \/ \E d \in Dispatchers : OnceReturn(d)

SpecShared == Init /\ [][NextShared]_vars

\* ------------------------------------------------ two VMs, the same calls
\* Two VMs are built by the factory from the same database, cfg_env and
\* block_env, each by create_evm or by create_evm_with_inspector, and are
\* then given the same calls: each call is made on the first VM and then on
\* the second, and `last` records both results.
First == CHOOSE d \in Dispatchers : \A e \in Dispatchers : d <= e

Second == CHOOSE d \in Dispatchers \ {First} :
              \A e \in Dispatchers \ {First} : d <= e

\* How a VM of the pair is built: "none" for create_evm, else the inspector
\* given to create_evm_with_inspector.
Hook == {"none"} \cup Inspector

Build(db, input, hook) ==
    IF hook = "none" THEN build_evm(db, input)
    ELSE create_evm_with_inspector(db, input, hook)

CreatePair(db, input, hook1, hook2) ==
    /\ pc[First] = "idle" /\ pc[Second] = "idle"
    /\ LET vm1 == Build(db, input, hook1)
           vm2 == Build(db, input, hook2)
       IN
        /\ disp' = [disp EXCEPT ![First] = vm1.inner.precompiles,
                                ![Second] = vm2.inner.precompiles]
        /\ last' = [op |-> "pair_create", d |-> 0,
                    arg |-> [db |-> db, input |-> input, hooks |-> <<hook1, hook2>>],
                    before |-> "-", ret |-> <<vm1, vm2>>]
    /\ given' = [given EXCEPT ![First] = "none", ![Second] = "none"]
    /\ UNCHANGED <<instance, builds, pc, caller, local, returned>>

\* set_spec(spec) on the first VM's dispatcher, then on the second's.
PairSetSpec(spec) ==
    /\ pc[First] = "idle" /\ pc[Second] = "idle"
    /\ LET r1 == IF spec = PRAGUE THEN get_or_init(instance, builds)
                 ELSE <<instance, builds, BaseRef("-")>>
           s1 == set_spec(disp[First], spec, r1[3])
           r2 == IF spec = PRAGUE THEN get_or_init(r1[1], r1[2])
                 ELSE <<instance, builds, BaseRef("-")>>
           s2 == set_spec(disp[Second], spec, r2[3])
       IN
        /\ instance' = r2[1]
        /\ builds' = r2[2]
        /\ returned' = IF spec = PRAGUE
                       THEN returned \cup {Returned(r1[3], r2[1]), Returned(r2[3], r2[1])}
                       ELSE returned
        /\ disp' = [disp EXCEPT ![First] = s1[1], ![Second] = s2[1]]
        /\ last' = [op |-> "pair_set_spec", d |-> 0, arg |-> spec,
                    before |-> Before(disp[First], spec), ret |-> <<s1[2], s2[2]>>]
    /\ given' = [given EXCEPT ![First] = spec, ![Second] = spec]
    /\ UNCHANGED <<pc, caller, local>>

\* run with the same arguments on both dispatchers.
PairRun(address, input, is_static, gas_limit) ==
    /\ pc[First] = "idle" /\ pc[Second] = "idle"
    /\ last' = [op |-> "pair_run", d |-> 0,
                arg |-> [address |-> address, input |-> input,
                         gas_limit |-> gas_limit],
                before |-> "-",
                ret |-> << run(disp[First], address, input, is_static, gas_limit),
                           run(disp[Second], address, input, is_static, gas_limit) >>]
    /\ UNCHANGED <<disp, instance, builds, pc, caller, local, given, returned>>

\* contains with the same address on both dispatchers.
PairContains(address) ==
    /\ pc[First] = "idle" /\ pc[Second] = "idle"
    /\ last' = [op |-> "pair_contains", d |-> 0, arg |-> address, before |-> "-",
                ret |-> << contains(disp[First], address),
                           contains(disp[Second], address) >>]
    /\ UNCHANGED <<disp, instance, builds, pc, caller, local, given, returned>>

\* warm_addresses on both dispatchers.
PairWarmAddresses ==
    /\ pc[First] = "idle" /\ pc[Second] = "idle"
    /\ last' = [op |-> "pair_warm_addresses", d |-> 0, arg |-> "-", before |-> "-",
                ret |-> << warm_addresses(disp[First]), warm_addresses(disp[Second]) >>]
    /\ UNCHANGED <<disp, instance, builds, pc, caller, local, given, returned>>

\* The pair is rebuilt and called in every order; prague_custom is also
\* called on its own, so the pair finds the OnceLock empty or filled.
NextPair ==
    \/ \E db \in Database, spec \in SharedSpecs, block_env \in BlockEnv,
          hook1 \in Hook, hook2 \in Hook :
            CreatePair(db, EvmEnv(spec, block_env), hook1, hook2)
    \/ \E spec \in SharedSpecs : PairSetSpec(spec)
    \/ \E address \in Address, input \in Input,
          is_static \in BOOLEAN, gas_limit \in GasLimit :
            PairRun(address, input, is_static, gas_limit)
    \/ \E address \in Address : PairContains(address)
    \/ PairWarmAddresses
    \/ \E d \in Dispatchers : prague_custom(d)

SpecPair == Init /\ [][NextPair]_vars

\* =================================================================== claims
\* The effective set for a spec, as the design states it: the base set for
\* that spec, overridden or extended by the custom entries for that spec.
BaseSetFor(spec) == Precompiles_new(from_spec_id(spec))

CustomEntriesFor(spec) ==
    IF spec = PRAGUE THEN (CUSTOM_ADDRESS :> "custom") ELSE << >>

EffectiveSet(spec) ==
    [a \in (DOMAIN BaseSetFor(spec)) \cup (DOMAIN CustomEntriesFor(spec)) |->
        IF a \in DOMAIN CustomEntriesFor(spec) THEN CustomEntriesFor(spec)[a]
        ELSE BaseSetFor(spec)[a]]

\* The effective set for PRAGUE: the base PRAGUE set and the custom entry.
CustomPragueSet == EffectiveSet(PRAGUE)

Range(seq) == { seq[i] : i \in 1..Len(seq) }

\* The custom routine's output as run reports it: success, nothing spent of
\* gas_limit, no output bytes.
CustomOutput(gas_limit) == Some("Return", gas_limit, 0, Bytes_new)

\* C1: after set_spec(PRAGUE), from whatever state the dispatcher was in,
\* contains(0x..0999) is true and run at 0x..0999 returns the custom routine's
\* output (gas_used 0, empty bytes) for every input, static flag and gas
\* limit; an entry added by the custom set wins over an entry the base set
\* has at the same address.
C1_CustomEntryAfterPrague ==
    /\ \A d \in Dispatchers : given[d] = PRAGUE =>
        /\ contains(disp[d], CUSTOM_ADDRESS)
        /\ \A input \in Input, is_static \in BOOLEAN, gas_limit \in GasLimit :
             run(disp[d], CUSTOM_ADDRESS, input, is_static, gas_limit)
               = CustomOutput(gas_limit)
    /\ (last.op = "contains" /\ given[last.d] = PRAGUE /\ last.arg = CUSTOM_ADDRESS)
         => last.ret = TRUE
    /\ (last.op = "run" /\ given[last.d] = PRAGUE /\ last.arg.address = CUSTOM_ADDRESS)
         => last.ret = CustomOutput(last.arg.gas_limit)
    /\ \A a \in DOMAIN Precompiles_prague :
         extend_custom((CUSTOM_ADDRESS :> Precompiles_prague[a]) @@ Precompiles_prague)
            [CUSTOM_ADDRESS] = "custom"

C1_Witness ==
    /\ last.op = "run"
    /\ given[last.d] = PRAGUE
    /\ last.arg.address = CUSTOM_ADDRESS
    /\ last.arg.gas_limit = 0
    /\ Len(last.arg.input) = MaxInputLen
    /\ last.ret = CustomOutput(0)

\* C2: after set_spec(S) with S before PRAGUE, contains(0x..0999) is false,
\* also when the call found the dispatcher set to PRAGUE with the custom
\* entry active.
C2_NoCustomEntryBeforePrague ==
    /\ \A d \in Dispatchers : given[d] \in PrePrague =>
        ~contains(disp[d], CUSTOM_ADDRESS)
    /\ (last.op = "contains" /\ given[last.d] \in PrePrague /\ last.arg = CUSTOM_ADDRESS)
         => last.ret = FALSE

C2_Witness ==
    /\ last.op = "set_spec"
    /\ last.arg \in PrePrague
    /\ last.before.custom
    /\ ~contains(disp[last.d], CUSTOM_ADDRESS)

\* What the calls of a dispatcher show of it.
Observations(self) ==
    [contains |-> [a \in Address |-> contains(self, a)],
     warm     |-> warm_addresses(self),
     run      |-> [a \in Address, input \in Input, gas_limit \in GasLimit |->
                     run(self, a, input, FALSE, gas_limit)]]

\* What the same calls show of a dispatcher whose active set is `set`.
ObservationsOf(set) ==
    [contains |-> [a \in Address |-> a \in DOMAIN set],
     warm     |-> SeqOf(DOMAIN set),
     run      |-> [a \in Address, input \in Input, gas_limit \in GasLimit |->
                     EthPrecompiles_run(set, a, input, FALSE, gas_limit)]]

\* C3: the active set is a function of the spec last supplied and of nothing
\* else: after any sequence of set_spec calls (any length, any order) that
\* ends with spec S, contains, warm_addresses and run at every address are
\* those of the effective set for S, so two dispatchers whose sequences end
\* with the same spec agree on all of them.
C3_ActiveSetFunctionOfLastSpec ==
    \A d \in Dispatchers : given[d] # "none" =>
        Observations(disp[d]) = ObservationsOf(EffectiveSet(given[d]))

C3_Witness ==
    /\ last.op = "set_spec"
    /\ last.before.custom
    /\ last.arg = "CANCUN"
    /\ Observations(disp[last.d]) = ObservationsOf(EffectiveSet("CANCUN"))
    /\ Observations(disp[last.d]) # ObservationsOf(CustomPragueSet)

ActiveSet(d) == Deref(disp[d].precompiles.precompiles)

\* C4 as stated: right after create, before any set_spec, the dispatcher's
\* active set is the effective set for the context's spec (with context spec
\* PRAGUE, contains(0x..0999) is true).
C4_AsStated ==
    last.op = "create_evm" =>
        /\ ActiveSet(last.d) = EffectiveSet(last.arg)
        /\ (last.arg = PRAGUE => contains(disp[last.d], CUSTOM_ADDRESS))

\* C4, amended: the dispatcher create attaches does not depend on the
\* context's spec: until set_spec is called it is EthPrecompiles::default(),
\* whose spec is SpecId::default() (PRAGUE) and whose active set is the base
\* PRAGUE set, without the custom entry.
C4_CreateAttachesDefaultDispatcher ==
    /\ \A d \in Dispatchers : given[d] = "none" =>
        /\ ActiveSet(d) = BaseSetFor(SpecId_default)
        /\ disp[d].precompiles.spec = SpecId_default
        /\ ~contains(disp[d], CUSTOM_ADDRESS)
    /\ (last.op = "contains" /\ given[last.d] = "none" /\ last.arg = CUSTOM_ADDRESS)
         => last.ret = FALSE

C4_Witness ==
    /\ last.op = "create_evm"
    /\ last.arg = "CANCUN"
    /\ given[last.d] = "none"
    /\ instance.state = "complete"
    /\ ActiveSet(last.d) # EffectiveSet(last.arg)

\* C5: the custom PRAGUE set is memoized: over any calls of prague_custom,
\* made directly or through set_spec(PRAGUE) on any number of dispatchers, the
\* build runs at most once and every call returns the same reference.
C5_BuiltOnceSameReference ==
    /\ builds <= 1
    /\ \A r1 \in returned, r2 \in returned : r1.ref = r2.ref
    /\ \A d \in Dispatchers : disp[d].precompiles.precompiles.kind = "custom" =>
         \A r \in returned : disp[d].precompiles.precompiles = r.ref

C5_Witness ==
    /\ builds = 1
    /\ last.op = "prague_custom"
    /\ last.ret \in returned
    /\ \A d \in Dispatchers :
         /\ given[d] = PRAGUE
         /\ disp[d].precompiles.precompiles = last.ret.ref

Building == { d \in Dispatchers : pc[d] \in {"clone", "extend", "store"} }

\* C6: under every interleaving of concurrent callers of prague_custom that
\* start before the first build completes, one build executes and no more,
\* no caller returns before it has completed, no caller sees a partly built
\* set, and all callers return the same, fully built set.
C6_OneBuildUnderConcurrency ==
    /\ builds <= 1
    /\ Cardinality(Building) <= 1
    /\ \A d \in Dispatchers : pc[d] = "return" =>
         /\ instance.state = "complete"
         /\ instance.value = CustomPragueSet
    /\ \A r \in returned :
         /\ builds = 1
         /\ r.seen = CustomPragueSet
         /\ r.ref = CustomRef(1)
    /\ \A d \in Dispatchers : local[d] # NoSet => instance.value = NoSet

C6_Witness ==
    \E d1 \in Dispatchers, d2 \in Dispatchers :
        /\ pc[d1] = "store"
        /\ local[d1] = CustomPragueSet
        /\ pc[d2] = "get_or_init"
        /\ instance.state = "running"
        /\ returned = {}

\* C7: once the custom PRAGUE set is published it never changes: no call of
\* set_spec, run, contains or warm_addresses and no later call of
\* prague_custom adds, removes or replaces an entry of it.
C7_PublishedSetNeverChanges ==
    [][instance.state = "complete" => instance' = instance]_vars

C7_Witness ==
    /\ instance.state = "complete"
    /\ instance.value = CustomPragueSet
    /\ last.op = "set_spec"
    /\ last.arg = PRAGUE
    /\ last.before.custom

\* Addresses that are in no precompile set.
NoSetAddress ==
    { a \in Address :
        /\ a # CUSTOM_ADDRESS
        /\ \A id \in PrecompileSpecId : a \notin DOMAIN Precompiles_new(id) }

\* C8: for an address B in no precompile set, contains(B) is false after
\* set_spec(S) for every S, and run at B returns the absent result (Ok(None)),
\* not an error and not a crash, in every state of the dispatcher.
C8_AbsentAddress ==
    /\ \A d \in Dispatchers, b \in NoSetAddress :
        /\ ~contains(disp[d], b)
        /\ \A input \in Input, is_static \in BOOLEAN, gas_limit \in GasLimit :
             run(disp[d], b, input, is_static, gas_limit) = Absent
    /\ (last.op = "contains" /\ last.arg \in NoSetAddress) => last.ret = FALSE
    /\ (last.op = "run" /\ last.arg.address \in NoSetAddress) => last.ret = Absent

C8_Witness ==
    /\ last.op = "run"
    /\ last.arg.address = CUSTOM_ADDRESS + 1
    /\ given[last.d] = PRAGUE
    /\ last.ret = Absent

\* C9: for every spec S, warm_addresses() after set_spec(S) yields exactly the
\* addresses for which contains is true in the effective table for S (for
\* PRAGUE, 0x..0999 among them), and no address twice.
C9_WarmAddressesAreEffectiveSet ==
    /\ \A d \in Dispatchers : given[d] # "none" =>
        LET w == warm_addresses(disp[d]) IN
        /\ Range(w) = DOMAIN EffectiveSet(given[d])
        /\ Len(w) = Cardinality(Range(w))
        /\ \A a \in Address : contains(disp[d], a) <=> a \in Range(w)
        /\ (given[d] = PRAGUE => CUSTOM_ADDRESS \in Range(w))
    /\ (last.op = "warm_addresses" /\ given[last.d] # "none") =>
        /\ Range(last.ret) = DOMAIN EffectiveSet(given[last.d])
        /\ Len(last.ret) = Cardinality(Range(last.ret))

C9_Witness ==
    /\ last.op = "warm_addresses"
    /\ given[last.d] = PRAGUE
    /\ CUSTOM_ADDRESS \in Range(last.ret)
    /\ Len(last.ret) = Cardinality(DOMAIN Precompiles_prague) + 1

\* C10: set_spec returns true for every spec and in every dispatcher state,
\* also when the spec supplied is the spec already active and when the call
\* is delegated to the base dispatcher.
C10_SetSpecReturnsTrue ==
    last.op = "set_spec" => last.ret = TRUE

C10_Witness ==
    /\ last.op = "set_spec"
    /\ last.arg # PRAGUE
    /\ last.before.same
    /\ last.ret = TRUE

\* The calls PairSetSpec, PairRun, PairContains and PairWarmAddresses record.
PairCalls == {"pair_set_spec", "pair_run", "pair_contains", "pair_warm_addresses"}

\* C11: two VMs freshly built by the factory from equal contexts (database,
\* config, block environment) and driven by the same sequence of set_spec
\* and run calls produce identical outputs and identical gas usage at every
\* step, whichever of them the shared OnceLock was filled for.
C11_PairDeterministic ==
    /\ last.op \in PairCalls => last.ret[1] = last.ret[2]
    /\ last.op = "pair_run" =>
        /\ last.ret[1].tag = last.ret[2].tag
        /\ last.ret[1].gas_spent = last.ret[2].gas_spent
        /\ last.ret[1].gas_remaining = last.ret[2].gas_remaining
    /\ \A a \in Address, input \in Input, gas_limit \in GasLimit :
         run(disp[First], a, input, FALSE, gas_limit)
           = run(disp[Second], a, input, FALSE, gas_limit)

C11_Witness ==
    /\ last.op = "pair_run"
    /\ given[First] = PRAGUE /\ given[Second] = PRAGUE
    /\ builds = 1
    /\ returned = {Returned(CustomRef(1), instance)}
    /\ last.arg.address = CUSTOM_ADDRESS
    /\ last.arg.gas_limit = 3000
    /\ last.ret = << CustomOutput(3000), CustomOutput(3000) >>

\* C12: create_evm_with_inspector(db, input, inspector) builds the same VM as
\* create_evm(db, input) except for the observation hook: the database, the
\* config, the block env and the dispatcher are identical, only the inspector
\* and the inspect flag differ, and the same calls on both VMs show the same.
C12_SameVmExceptInspector ==
    /\ last.op = "pair_create" =>
        LET vm1 == last.ret[1]
            vm2 == last.ret[2]
        IN
        /\ vm1.inner.db = last.arg.db /\ vm2.inner.db = last.arg.db
        /\ vm1.inner.cfg = last.arg.input.cfg_env
        /\ vm2.inner.cfg = last.arg.input.cfg_env
        /\ vm1.inner.block = last.arg.input.block_env
        /\ vm2.inner.block = last.arg.input.block_env
        /\ vm1.inner.precompiles = vm2.inner.precompiles
        /\ \A i \in 1..2 :
             IF last.arg.hooks[i] = "none"
             THEN /\ last.ret[i].inner.inspector = NoOpInspector
                  /\ last.ret[i].inspect = FALSE
             ELSE /\ last.ret[i].inner.inspector = last.arg.hooks[i]
                  /\ last.ret[i].inspect = TRUE
        /\ [vm2.inner EXCEPT !.inspector = vm1.inner.inspector] = vm1.inner
    /\ disp[First] = disp[Second]
    /\ Observations(disp[First]) = Observations(disp[Second])

C12_Witness ==
    /\ last.op = "pair_create"
    /\ last.arg.hooks = <<"none", "tracer">>
    /\ last.arg.input.cfg_env.spec = "CANCUN"
    /\ last.arg.db = "db_b"
    /\ last.ret[1].inspect = FALSE /\ last.ret[2].inspect = TRUE
    /\ last.ret[2].inner.inspector = "tracer"
    /\ instance.state = "complete"

\* The base dispatcher (an EthPrecompiles on its own) whose spec is s.
BaseDispatcher(s) == [precompiles |-> BaseRef(from_spec_id(s)), spec |-> s]

\* What contains, warm_addresses and run show of the base dispatcher that
\* was at spec b and was then given set_spec(s).
BaseObservations ==
    [b \in SpecId, s \in SpecId |->
        ObservationsOf(Precompiles_new(
            EthPrecompiles_set_spec(BaseDispatcher(b), s)[1].precompiles.id))]

\* C13: for every spec S other than PRAGUE, the custom dispatcher after
\* set_spec(S), from any prior state (the custom PRAGUE state included), is
\* observationally equal to the base dispatcher after its own set_spec(S):
\* the same contains, warm_addresses and run for every address.
C13_DelegationRefinesBase ==
    \A d \in Dispatchers : (given[d] # "none" /\ given[d] # PRAGUE) =>
        LET o == Observations(disp[d]) IN
        \A b \in SpecId : o = BaseObservations[b, given[d]]

C13_Witness ==
    /\ last.op = "set_spec"
    /\ last.arg = "OSAKA"
    /\ last.before.custom
    /\ Observations(disp[last.d]) = BaseObservations[PRAGUE, "OSAKA"]
    /\ Observations(disp[last.d]) = BaseObservations["CANCUN", "OSAKA"]
    /\ ~contains(disp[last.d], CUSTOM_ADDRESS)

\* C14: the custom PRAGUE set is the base PRAGUE set extended by the custom
\* entry: every address of the base PRAGUE set is in it with the same
\* routine, so run there gives what the base set gives, and 0x..0999 is the
\* only address at which the two sets differ.
C14_CustomPragueExtendsBase ==
    /\ instance.state = "complete" =>
        /\ DOMAIN instance.value = DOMAIN Precompiles_prague \cup {CUSTOM_ADDRESS}
        /\ \A a \in DOMAIN Precompiles_prague : instance.value[a] = Precompiles_prague[a]
        /\ CUSTOM_ADDRESS \notin DOMAIN Precompiles_prague
        /\ { a \in Address : (a \in DOMAIN instance.value) # (a \in DOMAIN Precompiles_prague) }
             = {CUSTOM_ADDRESS}
    /\ \A d \in Dispatchers : given[d] = PRAGUE =>
         \A a \in Address \ {CUSTOM_ADDRESS}, input \in Input, gas_limit \in GasLimit :
            /\ contains(disp[d], a) <=> a \in DOMAIN Precompiles_prague
            /\ run(disp[d], a, input, FALSE, gas_limit)
                 = EthPrecompiles_run(Precompiles_prague, a, input, FALSE, gas_limit)
    /\ (last.op = "run" /\ given[last.d] = PRAGUE /\ last.arg.address # CUSTOM_ADDRESS) =>
         \E is_static \in BOOLEAN :
            last.ret = EthPrecompiles_run(Precompiles_prague, last.arg.address,
                                          last.arg.input, is_static, last.arg.gas_limit)

C14_Witness ==
    /\ last.op = "run"
    /\ given[last.d] = PRAGUE
    /\ last.arg.address \in DOMAIN Precompiles_prague \ DOMAIN Precompiles_cancun
    /\ last.arg.gas_limit = 3000
    /\ last.ret # Absent
    /\ last.ret = EthPrecompiles_run(Precompiles_prague, last.arg.address,
                                     last.arg.input, FALSE, last.arg.gas_limit)

\* The dispatcher of VM d after one more set_spec(spec) in the current state:
\* <<the OnceLock after the call, the dispatcher after, the return value>>
AfterSetSpec(d, spec) ==
    LET r == IF spec = PRAGUE THEN get_or_init(instance, builds)
             ELSE <<instance, builds, BaseRef("-")>>
        s == set_spec(disp[d], spec, r[3])
    IN << r[1], s[1], s[2] >>

\* C15: set_spec is idempotent: after set_spec(S), a second set_spec(S)
\* leaves the same observable state (recorded spec, contains, warm_addresses
\* and run at every address, the OnceLock) as the first alone, whether the
\* second call recomputes the set or a last-spec guard skips it.
C15_SetSpecIdempotent ==
    /\ \A d \in Dispatchers : given[d] # "none" =>
        LET again == AfterSetSpec(d, given[d]) IN
        /\ again[1] = instance
        /\ again[2].precompiles.spec = disp[d].precompiles.spec
        /\ Observations(again[2]) = Observations(disp[d])
        /\ again[3] = TRUE
    /\ (last.op = "set_spec" /\ last.before.same /\ last.arg # PRAGUE) =>
         Observations(disp[last.d]) = ObservationsOf(EffectiveSet(last.arg))

C15_Witness ==
    /\ last.op = "set_spec"
    /\ last.arg = PRAGUE
    /\ last.before.same /\ last.before.custom
    /\ given[last.d] = PRAGUE
    /\ builds = 1
    /\ Observations(disp[last.d]) = ObservationsOf(CustomPragueSet)
    /\ AfterSetSpec(last.d, PRAGUE)[2] = disp[last.d]

\* The result run gives for a routine outcome that is a failure.
FailureOf(out, gas_limit) ==
    Some(IF out.oog THEN "PrecompileOOG" ELSE "PrecompileError", gas_limit, 0, Bytes_new)

\* The calls (address, input, gas_limit) at which the routine of the active
\* set of VM d fails.
Fails(d, address, input, gas_limit) ==
    /\ address \in DOMAIN ActiveSet(d)
    /\ call_routine(ActiveSet(d)[address], input, gas_limit).tag = "Err"

\* C16: a failure of a native routine (out of gas, or an input it rejects) is
\* returned by run as a result value for the present address, the outcome of
\* the one invocation with the caller's gas limit: not the absent result, not
\* a success, not a crash; and the failing run leaves the dispatcher (active
\* set and spec) and the cached set unchanged.
C16_FailureIsAResult ==
    /\ [](/\ \A d \in Dispatchers, a \in Address, input \in Input, gas_limit \in GasLimit :
               Fails(d, a, input, gas_limit) =>
                 LET r == run(disp[d], a, input, FALSE, gas_limit) IN
                 /\ r = FailureOf(call_routine(ActiveSet(d)[a], input, gas_limit), gas_limit)
                 /\ r # Absent /\ r # Panic
                 /\ r.tag = "Some" /\ r.result # "Return"
          /\ (last.op = "run" /\ Fails(last.d, last.arg.address, last.arg.input,
                                        last.arg.gas_limit)) =>
               /\ last.ret.tag = "Some"
               /\ last.ret.result \in {"PrecompileOOG", "PrecompileError"}
               /\ last.ret.gas_remaining = last.arg.gas_limit)
    /\ [][(last' # last /\ last'.op = "run" /\ last'.ret.tag = "Some"
             /\ last'.ret.result # "Return")
            => (disp' = disp /\ instance' = instance /\ given' = given)]_vars

C16_Witness ==
    /\ last.op = "run"
    /\ given[last.d] = PRAGUE
    /\ last.arg.address \in DOMAIN Precompiles_homestead
    /\ last.arg.gas_limit = 0
    /\ Fails(last.d, last.arg.address, last.arg.input, last.arg.gas_limit)
    /\ last.ret.result = "PrecompileOOG"

\* The calls of a dispatcher other than set_spec.
ReadCalls == {"run", "contains", "warm_addresses"}

\* C17: only set_spec changes the active set: a call of contains, of
\* warm_addresses or of run, at a present or an absent address, leaves every
\* dispatcher's active set (hence the answer of contains(A) for every address
\* A, 0x..0999 among them) and recorded spec and the cached set unchanged.
C17_ReadCallsChangeNothing ==
    [][(last' # last /\ last'.op \in ReadCalls) =>
         /\ disp' = disp
         /\ instance' = instance
         /\ \A d \in Dispatchers :
              /\ ActiveSet(d)' = ActiveSet(d)
              /\ contains(disp[d], CUSTOM_ADDRESS)' = contains(disp[d], CUSTOM_ADDRESS)]_vars

C17_Witness ==
    /\ last.op = "run"
    /\ last.arg.address \in NoSetAddress
    /\ given[last.d] = "CANCUN"
    /\ disp[last.d].precompiles.spec = "CANCUN"
    /\ ActiveSet(last.d) = Precompiles_cancun
    /\ instance.state = "complete"

\* The calls that replace or reassign the dispatcher they are made on.
OwnCalls == {"create_evm", "clone", "set_spec"}

\* C18: dispatchers are isolated: with several dispatchers, built by separate
\* create_evm calls or by cloning, that share the set of the OnceLock, under
\* every interleaving of their threads' steps the active set of a dispatcher,
\* its recorded spec and what contains and run show at 0x..0999 change only
\* by a call made on that dispatcher; set_spec on another one never changes
\* them. (A step that changes no dispatcher and not the OnceLock changes none
\* of these.)
C18_DispatchersIsolated ==
    [][\/ disp' = disp /\ instance' = instance
       \/ \A e \in Dispatchers :
         ~(last' # last /\ last'.d = e /\ last'.op \in OwnCalls) =>
            /\ disp'[e] = disp[e]
            /\ ActiveSet(e)' = ActiveSet(e)
            /\ contains(disp[e], CUSTOM_ADDRESS)' = contains(disp[e], CUSTOM_ADDRESS)
            /\ run(disp[e], CUSTOM_ADDRESS, << >>, FALSE, 0)'
                 = run(disp[e], CUSTOM_ADDRESS, << >>, FALSE, 0)]_vars

C18_Witness ==
    \E d \in Dispatchers, e \in Dispatchers :
        /\ d # e
        /\ last.op = "set_spec" /\ last.d = e /\ last.arg = "CANCUN"
        /\ last.before.custom
        /\ given[d] = PRAGUE
        /\ disp[d].precompiles.precompiles = CustomRef(1)
        /\ contains(disp[d], CUSTOM_ADDRESS)
        /\ ~contains(disp[e], CUSTOM_ADDRESS)

\* C19: the custom entry is tied to the exact spec PRAGUE and is not
\* inherited by later hardforks: for every spec S ordered after PRAGUE, after
\* set_spec(S), also from the custom PRAGUE state, contains(0x..0999) is false
\* and run at 0x..0999 returns the absent result.
C19_NotInheritedAfterPrague ==
    /\ PostPrague # {}
    /\ \A d \in Dispatchers : given[d] \in PostPrague =>
        /\ ~contains(disp[d], CUSTOM_ADDRESS)
        /\ CUSTOM_ADDRESS \notin Range(warm_addresses(disp[d]))
        /\ \A input \in Input, is_static \in BOOLEAN, gas_limit \in GasLimit :
             run(disp[d], CUSTOM_ADDRESS, input, is_static, gas_limit) = Absent
    /\ (last.op = "contains" /\ given[last.d] \in PostPrague /\ last.arg = CUSTOM_ADDRESS)
         => last.ret = FALSE
    /\ (last.op = "run" /\ given[last.d] \in PostPrague
          /\ last.arg.address = CUSTOM_ADDRESS)
         => last.ret = Absent

C19_Witness ==
    /\ last.op = "run"
    /\ given[last.d] = "OSAKA"
    /\ disp[last.d].precompiles.spec = "OSAKA"
    /\ instance.state = "complete"
    /\ last.arg.address = CUSTOM_ADDRESS
    /\ last.ret = Absent

====
